---------------------------- MODULE Spec2Model ----------------------------
(***************************************************************************)
(* Model of reddit_scraper/__main__.py: RedditScraper.fetch_posts (the     *)
(* cursor-driven pagination loop) and RedditScraper.download_posts (the    *)
(* per-post download pipeline), together with the two collaborators they   *)
(* talk to: the listing/media service and the destination directory.  The  *)
(* two earlier implementations, reddit_scraper/app.py and main.py, are     *)
(* modelled next to it, to compare their runs with its runs.               *)
(***************************************************************************)
EXTENDS Integers, Sequences, FiniteSets, TLC

VARIABLES
    limit_per_page,    \* self.limit_per_page
    limit,             \* self.limit (0 = unlimited)
    quiet,             \* self.quiet
    include_metadata,  \* self.include_metadata
    total,             \* service: number of records in the user's listing
    served,            \* service: records served so far, whole pages, in order
    pc,                \* position of the run
    after,             \* fetch_posts: local `after`
    posts_json,        \* fetch_posts: local `posts_json`
    count,             \* fetch_posts: local `count`
    fetch_ret,         \* value fetch_posts returned to its caller
    idx,               \* download_posts: position of the for loop in the list
    dir_exists,        \* destination/username exists
    fs,                \* files under destination/username: name -> content
    requests,          \* listing requests issued, with the kind of response
    gets,              \* media GETs issued: index of the record in the list
    writes,            \* file writes that completed: index, name, content
    outcome,           \* what became of each record the for loop has passed
    progress,          \* items reported to the progress observer
    ret,               \* value download_posts returned to main
    opens,             \* for each write that failed: had open() succeeded
    impl,              \* the implementation that performs the run
    first              \* the first run, once a second run has been started

vars == <<limit_per_page, limit, quiet, include_metadata, total, served, pc,
          after, posts_json, count, fetch_ret, idx, dir_exists, fs, requests,
          gets, writes, outcome, progress, ret, opens, impl, first>>

config == <<limit_per_page, limit, quiet, include_metadata, total>>
fetchLocals == <<after, posts_json, count>>
downloadState ==
    <<idx, dir_exists, fs, gets, writes, outcome, progress, ret, opens>>
rerun == <<impl, first>>

-----------------------------------------------------------------------------
(* Bounds of the model.                                                    *)

\* fetch_posts on its own: listing length, limit and per-page cap.
MaxListing == 3
MaxLimit == 3
MaxPerPage == 2
\* whole runs of download_posts: listing length, limit and per-page cap.
MaxRunPosts == 2

-----------------------------------------------------------------------------
(* Values.                                                                 *)

\* after = '' (start of the listing) and after = None (end of the listing).
\* A cursor token returned by the service is the number of records before it.
StartCursor == 0
NoCursor == -1

\* A Python value that is either None or a list.
None == [isNone |-> TRUE, list |-> <<>>]
List(s) == [isNone |-> FALSE, list |-> s]

\* The data objects the service can serve.  A url is its string of
\* characters; the scheme and host are abbreviated to one character.
NoUrlPost    == [id |-> "p1"]
EmptyPost    == [id |-> "p2", url |-> <<"h", "/">>]
GalleryPost  == [id |-> "p3", url |-> <<"h", "/", "g">>]
ImagePost    == [id |-> "p4", url |-> <<"h", "/", "a", ".", "j">>]
SameNamePost == [id |-> "p5", url |-> <<"k", "/", "a", ".", "j">>]
Pool == {NoUrlPost, EmptyPost, GalleryPost, ImagePost, SameNamePost}

\* A child of data.children wraps the data object.
Child(d) == [data |-> d]

Min(a, b) == IF a < b THEN a ELSE b

\* The per-page cap main() gives the scraper, in the three programs.
LIMIT_PER_PAGE == 100

\* The implementation a run is performed by: reddit_scraper/__main__.py, or
\* one of the two earlier ones, reddit_scraper/app.py and main.py.
Current == impl = "__main__"
Legacy == {"app", "main"}

SeqsOfLen(S, n) == [1..n -> S]

-----------------------------------------------------------------------------
(* fetch_posts                                                             *)

\* Variants of the loop condition: `count <= self.limit`, and one without
\* the `self.limit == 0` escape.
LoopCondOffByOne == after /= NoCursor /\ (limit = 0 \/ count <= limit)
LoopCondNoUnlimited == after /= NoCursor /\ count < limit

\* while after is not None and (self.limit == 0 or count < self.limit)
LoopCond == after /= NoCursor /\ (limit = 0 \/ count < limit)

\* limit = min(self.limit_per_page, self.limit or self.limit_per_page)
PageSize == Min(limit_per_page, IF limit /= 0 THEN limit ELSE limit_per_page)

\* Variant of the for loop that drops a child it already holds.
RECURSIVE AppendChildrenDedup(_, _, _, _)
AppendChildrenDedup(posts, cnt, children, i) ==
    IF i > Len(children) THEN <<posts, cnt>>
    ELSE IF \E j \in 1..Len(posts) : posts[j] = children[i]
    THEN AppendChildrenDedup(posts, cnt, children, i + 1)
    ELSE LET posts1 == Append(posts, children[i])
             cnt1 == cnt + 1
         IN IF limit /= 0 /\ cnt1 >= limit
            THEN <<posts1, cnt1>>
            ELSE AppendChildrenDedup(posts1, cnt1, children, i + 1)

\* Variant of the for loop without the break.
AppendChildrenNoBreak(posts, cnt, children, i) ==
    <<posts \o children, cnt + Len(children)>>

\* for child in children: append; count += 1; break at the limit.
\* The pair <<posts_json, count>> after the for loop.
RECURSIVE AppendChildren(_, _, _, _)
AppendChildren(posts, cnt, children, i) ==
    IF i > Len(children) THEN <<posts, cnt>>
    ELSE LET posts1 == Append(posts, children[i])
             cnt1 == cnt + 1
         IN IF limit /= 0 /\ cnt1 >= limit
            THEN <<posts1, cnt1>>
            ELSE AppendChildren(posts1, cnt1, children, i + 1)

\* Variants of the return statements: `return posts_json` on a 404 body,
\* and `return posts_json or None` on loop exit.
NotFoundRetPartial == List(posts_json)
LoopExitRetOrNone == IF posts_json = <<>> THEN None ELSE List(posts_json)

\* What the three return statements of fetch_posts return.
NotFoundRet == None
TransportErrorRet == None
LoopExitRet == List(posts_json)

\* The service: the page that starts at cursor `c` holds between one record
\* and `n` records, as many as the listing still has, and its next-cursor is
\* None exactly when the listing ends with it.
CursorStart(c) == IF c = StartCursor THEN 0 ELSE c
PageLengths(n, c) ==
    LET rest == total - CursorStart(c)
    IN IF rest = 0 THEN {0} ELSE 1..Min(n, rest)
NextCursor(c, k) ==
    IF CursorStart(c) + k = total THEN NoCursor ELSE CursorStart(c) + k

\* A listing request as issued (params limit and after, with the number of
\* records accumulated when it was issued) and the response it got: its
\* kind, the number of children and the next-cursor of a page.
Request(kind, k, next) ==
    [limit |-> PageSize, after |-> after, have |-> count,
     resp |-> kind, children |-> k, next |-> next]

\* A second run is given the responses the first run was given: the listing
\* response, the result of a media GET and of a write, each by its position.
Replaying == first.taken

ReplayResponse(kind, k, page) ==
    Replaying =>
        LET n == Len(requests) + 1
        IN /\ n <= Len(first.requests)
           /\ first.requests[n].resp = kind
           /\ first.requests[n].children = k
           /\ Len(served) + k <= Len(first.served)
           /\ \A i \in 1..k : first.served[Len(served) + i] = Child(page[i])

ReplayItem(what) ==
    Replaying => (idx <= Len(first.outcome) /\ first.outcome[idx] = what)

ReplayOpen(opened) ==
    Replaying =>
        /\ Len(opens) < Len(first.opens)
        /\ first.opens[Len(opens) + 1] = opened

FetchStart ==
    /\ Current
    /\ pc = "idle"
    /\ pc' = "fetching"
    /\ after' = StartCursor
    /\ posts_json' = <<>>
    /\ count' = 0
    /\ UNCHANGED <<config, rerun, served, fetch_ret, downloadState, requests>>

\* One iteration of the loop whose response is a page of the listing.
FetchPage ==
    /\ Current
    /\ pc = "fetching"
    /\ LoopCond
    /\ \E k \in PageLengths(PageSize, after) :
         \E page \in SeqsOfLen(Pool, k) :
            LET children == [i \in 1..k |-> Child(page[i])]
                acc == AppendChildren(posts_json, count, children, 1)
            IN /\ ReplayResponse("page", k, page)
               /\ requests' = Append(requests,
                                    Request("page", k, NextCursor(after, k)))
               /\ served' = served \o children
               /\ posts_json' = acc[1]
               /\ count' = acc[2]
               /\ after' = NextCursor(after, k)
    /\ UNCHANGED <<config, rerun, pc, fetch_ret, downloadState>>

\* One iteration whose response body carries error == 404.
FetchNotFound ==
    /\ Current
    /\ pc = "fetching"
    /\ LoopCond
    /\ ReplayResponse("notfound", 0, <<>>)
    /\ requests' = Append(requests, Request("notfound", 0, NoCursor))
    /\ fetch_ret' = NotFoundRet
    /\ pc' = "fetched"
    /\ UNCHANGED <<config, rerun, served, fetchLocals, downloadState>>

\* One iteration whose request raises requests.RequestException: a network
\* error in requests.get, or a non-2xx status in raise_for_status.
FetchTransportError ==
    /\ Current
    /\ pc = "fetching"
    /\ LoopCond
    /\ \E kind \in {"neterr", "non2xx"} :
         /\ ReplayResponse(kind, 0, <<>>)
         /\ requests' = Append(requests, Request(kind, 0, NoCursor))
    /\ fetch_ret' = TransportErrorRet
    /\ pc' = "fetched"
    /\ UNCHANGED <<config, rerun, served, fetchLocals, downloadState>>

\* The loop condition is false: return posts_json.
FetchReturn ==
    /\ Current
    /\ pc = "fetching"
    /\ ~LoopCond
    /\ fetch_ret' = LoopExitRet
    /\ pc' = "fetched"
    /\ UNCHANGED <<config, rerun, served, fetchLocals, downloadState, requests>>

-----------------------------------------------------------------------------
(* download_posts                                                          *)

\* Variant: `if not posts_json or self.quiet: return`.
FalsyOrQuiet(v) == v.isNone \/ v.list = <<>> \/ quiet

\* `not posts_json`: None and the empty list are both falsy.
Falsy(v) == v.isNone \/ v.list = <<>>

\* The data object of the record the for loop is at.
Post == fetch_ret.list[idx].data

HasUrl(d) == "url" \in DOMAIN d

\* url.rsplit('/', 1)[-1]: what follows the last '/', the whole string when
\* it has none.
\* Variant that names the file after the whole url.
FilenameWholeUrl(url) == url

LastSlash(url) ==
    LET at == {i \in 1..Len(url) : url[i] = "/"}
    IN IF at = {} THEN 0 ELSE CHOOSE i \in at : \A j \in at : j <= i
Filename(url) == SubSeq(url, LastSlash(url) + 1, Len(url))

\* Variant that only rejects the empty filename.
NoFilenameEmptyOnly(name) == name = <<>>

\* `not filename or '.' not in filename`
NoFilename(name) == name = <<>> \/ ~(\E i \in 1..Len(name) : name[i] = ".")

\* f"{post_json['data']['id']}.json"
MetadataName(d) == <<d.id, ".", "json">>

\* File contents: the body the media endpoint serves for a url, the JSON
\* document of a data object, and what a write that failed half-way leaves.
Body(url) == [kind |-> "media", body |-> url]
Json(d) == [kind |-> "json", data |-> d]
Truncated == [kind |-> "truncated"]

\* Variant that leaves an existing file as it is (exclusive creation).
PutNoOverwrite(f, name, content) ==
    IF name \in DOMAIN f THEN f
    ELSE [n \in (DOMAIN f) \cup {name} |-> IF n = name THEN content ELSE f[n]]

\* open(name, 'w' or 'wb') followed by a complete write.
Put(f, name, content) ==
    [n \in (DOMAIN f) \cup {name} |-> IF n = name THEN content ELSE f[n]]

WriteEvent(name, content) == [idx |-> idx, name |-> name, content |-> content]

\* The for loop moves on; tqdm reports the item unless disabled.
Advance(what) ==
    /\ idx' = idx + 1
    /\ outcome' = Append(outcome, what)
    /\ progress' = IF quiet THEN progress ELSE progress + 1
    /\ opens' = opens

\* The same after a write that raised IOError.
AdvanceFailedWrite(what, opened) ==
    /\ idx' = idx + 1
    /\ outcome' = Append(outcome, what)
    /\ progress' = IF quiet THEN progress ELSE progress + 1
    /\ opens' = Append(opens, opened)

AtItem == Current /\ pc = "downloading" /\ idx <= Len(fetch_ret.list)

Fetchable == AtItem /\ HasUrl(Post) /\ ~NoFilename(Filename(Post.url))

\* if not posts_json: return
DownloadNothing ==
    /\ Current
    /\ pc = "fetched"
    /\ Falsy(fetch_ret)
    /\ pc' = "done"
    /\ ret' = "None"
    /\ UNCHANGED <<config, rerun, served, fetchLocals, fetch_ret, requests,
                   idx, dir_exists, fs, gets, writes, outcome, progress, opens>>

\* Variant: mkdir() without exist_ok.
ExistNotOk == FALSE

\* download_dir.mkdir(exist_ok=True): FileExistsError is raised for an
\* existing directory only without exist_ok.
ExistOk == TRUE
MkdirRaises == dir_exists /\ ~ExistOk

\* download_dir.mkdir(exist_ok=True) and the start of the for loop; an
\* exception of mkdir is not caught and ends download_posts.
DownloadBegin ==
    /\ Current
    /\ pc = "fetched"
    /\ ~Falsy(fetch_ret)
    /\ IF MkdirRaises
       THEN /\ pc' = "done"
            /\ ret' = "FileExistsError"
            /\ UNCHANGED <<dir_exists, idx>>
       ELSE /\ dir_exists' = TRUE
            /\ idx' = 1
            /\ pc' = "downloading"
            /\ ret' = ret
    /\ UNCHANGED <<config, rerun, served, fetchLocals, fetch_ret, requests,
                   fs, gets, writes, outcome, progress, opens>>

\* if 'url' not in post_json['data']: continue
SkipNoUrl ==
    /\ AtItem
    /\ ~HasUrl(Post)
    /\ Advance("skipped")
    /\ UNCHANGED <<config, rerun, served, fetchLocals, fetch_ret, requests, pc,
                   dir_exists, fs, gets, writes, ret>>

\* if not filename or '.' not in filename: continue
SkipNoFilename ==
    /\ AtItem
    /\ HasUrl(Post)
    /\ NoFilename(Filename(Post.url))
    /\ Advance("skipped")
    /\ UNCHANGED <<config, rerun, served, fetchLocals, fetch_ret, requests, pc,
                   dir_exists, fs, gets, writes, ret>>

\* Variant in which the exception of a failed GET is not caught and ends
\* download_posts.
MediaGetFailsUncaught ==
    /\ Fetchable
    /\ gets' = Append(gets, idx)
    /\ pc' = "done"
    /\ ret' = "None"
    /\ UNCHANGED <<config, rerun, served, fetchLocals, fetch_ret, requests,
                   idx, dir_exists, fs, writes, outcome, progress, opens>>

\* Variant in which the metadata is written although the GET failed.
MediaGetFailsWritesMetadata ==
    /\ Fetchable
    /\ gets' = Append(gets, idx)
    /\ IF include_metadata
       THEN /\ writes' = Append(writes, WriteEvent(MetadataName(Post), Json(Post)))
            /\ fs' = Put(fs, MetadataName(Post), Json(Post))
       ELSE UNCHANGED <<writes, fs>>
    /\ Advance("get failed")
    /\ UNCHANGED <<config, rerun, served, fetchLocals, fetch_ret, requests, pc,
                   dir_exists, ret>>

\* Variant in which a failed GET is tried again.
MediaGetFailsRetry ==
    /\ Fetchable
    /\ gets' = Append(gets, idx)
    /\ UNCHANGED <<config, rerun, served, fetchLocals, fetch_ret, requests, pc,
                   idx, outcome, progress, dir_exists, fs, writes, ret, opens>>

\* requests.get or raise_for_status raises: logged, next record.
MediaGetFails ==
    /\ Fetchable
    /\ ReplayItem("get failed")
    /\ gets' = Append(gets, idx)
    /\ Advance("get failed")
    /\ UNCHANGED <<config, rerun, served, fetchLocals, fetch_ret, requests, pc,
                   dir_exists, fs, writes, ret>>

\* Variant in which the IOError of the media write is not caught and ends
\* download_posts.
MediaWriteFailsUncaught ==
    /\ Fetchable
    /\ gets' = Append(gets, idx)
    /\ \E opened \in BOOLEAN :
         /\ fs' = IF opened THEN Put(fs, Filename(Post.url), Truncated)
                  ELSE fs
         /\ opens' = Append(opens, opened)
    /\ pc' = "done"
    /\ ret' = "None"
    /\ UNCHANGED <<config, rerun, served, fetchLocals, fetch_ret, requests,
                   idx, dir_exists, writes, outcome, progress>>

\* The GET succeeds and writing the media file raises IOError: in open (the
\* file is untouched) or in write (open has truncated it).
MediaWriteFails ==
    /\ Fetchable
    /\ ReplayItem("media write failed")
    /\ gets' = Append(gets, idx)
    /\ \E opened \in BOOLEAN :
         /\ ReplayOpen(opened)
         /\ fs' = IF opened THEN Put(fs, Filename(Post.url), Truncated)
                  ELSE fs
         /\ AdvanceFailedWrite("media write failed", opened)
    /\ UNCHANGED <<config, rerun, served, fetchLocals, fetch_ret, requests, pc,
                   dir_exists, writes, ret>>

\* The media file is written and writing the metadata file raises IOError.
MetadataWriteFails ==
    /\ Fetchable
    /\ include_metadata
    /\ ReplayItem("metadata write failed")
    /\ gets' = Append(gets, idx)
    /\ writes' = Append(writes, WriteEvent(Filename(Post.url), Body(Post.url)))
    /\ \E opened \in BOOLEAN :
         LET fs1 == Put(fs, Filename(Post.url), Body(Post.url))
         IN /\ ReplayOpen(opened)
            /\ fs' = IF opened THEN Put(fs1, MetadataName(Post), Truncated)
                     ELSE fs1
            /\ AdvanceFailedWrite("metadata write failed", opened)
    /\ UNCHANGED <<config, rerun, served, fetchLocals, fetch_ret, requests, pc,
                   dir_exists, ret>>

\* The GET and every write of the record succeed.
ItemDownloaded ==
    /\ Fetchable
    /\ ReplayItem("downloaded")
    /\ gets' = Append(gets, idx)
    /\ LET media == WriteEvent(Filename(Post.url), Body(Post.url))
           meta == WriteEvent(MetadataName(Post), Json(Post))
           fs1 == Put(fs, media.name, media.content)
       IN IF include_metadata
          THEN /\ writes' = writes \o <<media, meta>>
               /\ fs' = Put(fs1, meta.name, meta.content)
          ELSE /\ writes' = Append(writes, media)
               /\ fs' = fs1
    /\ Advance("downloaded")
    /\ UNCHANGED <<config, rerun, served, fetchLocals, fetch_ret, requests, pc,
                   dir_exists, ret>>

\* The for loop is exhausted: download_posts returns.
DownloadEnd ==
    /\ Current
    /\ pc = "downloading"
    /\ idx > Len(fetch_ret.list)
    /\ pc' = "done"
    /\ ret' = "None"
    /\ UNCHANGED <<config, rerun, served, fetchLocals, fetch_ret, requests,
                   idx, dir_exists, fs, gets, writes, outcome, progress, opens>>

-----------------------------------------------------------------------------
(* reddit_scraper/app.py and main.py: the same two functions, without a    *)
(* limit and without exception handling.  main.py differs from app.py in   *)
(* the per-page value, a module constant, and in having no quiet flag.     *)

\* limit={self.limit_per_page} in app.py, limit={LIMIT_PER_PAGE} in main.py
AppPageSize == limit_per_page
MainPageSize == LIMIT_PER_PAGE
LegacyPageSize(i) == IF i = "main" THEN MainPageSize ELSE AppPageSize

\* tqdm(..., disable=self.quiet) in app.py, no disable in main.py
LegacyQuiet(i) == i = "app" /\ quiet

\* after = ''; posts_json = []
LegacyFetchStart(i) ==
    /\ impl = i
    /\ pc = "idle"
    /\ pc' = "fetching"
    /\ after' = StartCursor
    /\ posts_json' = <<>>
    /\ UNCHANGED <<config, rerun, served, count, fetch_ret, downloadState,
                   requests>>

\* One iteration of `while after is not None`: every child is appended.
LegacyFetchPage(i) ==
    /\ impl = i
    /\ pc = "fetching"
    /\ after /= NoCursor
    /\ \E k \in PageLengths(LegacyPageSize(i), after) :
         \E page \in SeqsOfLen(Pool, k) :
            LET children == [j \in 1..k |-> Child(page[j])]
            IN /\ ReplayResponse("page", k, page)
               /\ requests' = Append(requests,
                      [limit |-> LegacyPageSize(i), after |-> after,
                       have |-> Len(posts_json), resp |-> "page",
                       children |-> k, next |-> NextCursor(after, k)])
               /\ served' = served \o children
               /\ posts_json' = posts_json \o children
               /\ after' = NextCursor(after, k)
    /\ UNCHANGED <<config, rerun, pc, count, fetch_ret, downloadState>>

\* after is None: return posts_json
LegacyFetchReturn(i) ==
    /\ impl = i
    /\ pc = "fetching"
    /\ after = NoCursor
    /\ fetch_ret' = List(posts_json)
    /\ pc' = "fetched"
    /\ UNCHANGED <<config, rerun, served, fetchLocals, downloadState, requests>>

\* if not posts_json: return
LegacyDownloadNothing(i) ==
    /\ impl = i
    /\ pc = "fetched"
    /\ Falsy(fetch_ret)
    /\ pc' = "done"
    /\ ret' = "None"
    /\ UNCHANGED <<config, rerun, served, fetchLocals, fetch_ret, requests,
                   idx, dir_exists, fs, gets, writes, outcome, progress, opens>>

\* if not os.path.exists(download_dir): os.mkdir(download_dir)
LegacyDownloadBegin(i) ==
    /\ impl = i
    /\ pc = "fetched"
    /\ ~Falsy(fetch_ret)
    /\ dir_exists' = (IF ~dir_exists THEN TRUE ELSE dir_exists)
    /\ idx' = 1
    /\ pc' = "downloading"
    /\ UNCHANGED <<config, rerun, served, fetchLocals, fetch_ret, requests,
                   fs, gets, writes, outcome, progress, ret, opens>>

LegacyAtItem(i) ==
    impl = i /\ pc = "downloading" /\ idx <= Len(fetch_ret.list)

LegacyAdvance(i, what) ==
    /\ idx' = idx + 1
    /\ outcome' = Append(outcome, what)
    /\ progress' = IF LegacyQuiet(i) THEN progress ELSE progress + 1
    /\ opens' = opens

\* Variant without the test `'.' not in filename`.
LegacyDownloadsNoDotTest(d) == HasUrl(d) /\ Filename(d.url) /= <<>>

\* The record reaches requests.get: `if 'url' in data`, `if filename`, and
\* no `continue` at `if '.' not in filename`.
LegacyDownloads(d) ==
    /\ HasUrl(d)
    /\ Filename(d.url) /= <<>>
    /\ \E j \in 1..Len(Filename(d.url)) : Filename(d.url)[j] = "."

\* Any of the three tests sends the for loop to the next record.
LegacySkip(i) ==
    /\ LegacyAtItem(i)
    /\ ~LegacyDownloads(Post)
    /\ LegacyAdvance(i, "skipped")
    /\ UNCHANGED <<config, rerun, served, fetchLocals, fetch_ret, requests, pc,
                   dir_exists, fs, gets, writes, ret>>

\* requests.get(url), open(file, 'wb').write(r.content) and, with
\* include_metadata, json.dump of the data object to {id}.json.
LegacyItemDownloaded(i) ==
    /\ LegacyAtItem(i)
    /\ LegacyDownloads(Post)
    /\ gets' = Append(gets, idx)
    /\ LET media == WriteEvent(Filename(Post.url), Body(Post.url))
           meta == WriteEvent(MetadataName(Post), Json(Post))
           fs1 == Put(fs, media.name, media.content)
       IN IF include_metadata
          THEN /\ writes' = writes \o <<media, meta>>
               /\ fs' = Put(fs1, meta.name, meta.content)
          ELSE /\ writes' = Append(writes, media)
               /\ fs' = fs1
    /\ LegacyAdvance(i, "downloaded")
    /\ UNCHANGED <<config, rerun, served, fetchLocals, fetch_ret, requests, pc,
                   dir_exists, ret>>

\* The for loop is exhausted: return
LegacyDownloadEnd(i) ==
    /\ impl = i
    /\ pc = "downloading"
    /\ idx > Len(fetch_ret.list)
    /\ pc' = "done"
    /\ ret' = "None"
    /\ UNCHANGED <<config, rerun, served, fetchLocals, fetch_ret, requests,
                   idx, dir_exists, fs, gets, writes, outcome, progress, opens>>

-----------------------------------------------------------------------------
(* Specifications                                                          *)

\* No second run has been started.
NoFirst ==
    [taken |-> FALSE, quiet |-> FALSE, fetch_ret |-> None, requests |-> <<>>,
     served |-> <<>>, gets |-> <<>>, writes |-> <<>>, outcome |-> <<>>,
     opens |-> <<>>, fs |-> <<>>, ret |-> "unset"]

InitRun ==
    /\ pc = "idle"
    /\ quiet \in BOOLEAN
    /\ include_metadata \in BOOLEAN
    /\ served = <<>>
    /\ after = StartCursor
    /\ posts_json = <<>>
    /\ count = 0
    /\ fetch_ret = None
    /\ idx = 0
    /\ dir_exists = FALSE
    /\ fs = <<>>
    /\ requests = <<>>
    /\ gets = <<>>
    /\ writes = <<>>
    /\ outcome = <<>>
    /\ progress = 0
    /\ ret = "unset"
    /\ opens = <<>>
    /\ impl = "__main__"
    /\ first = NoFirst

\* fetch_posts called on its own.
InitFetch ==
    /\ InitRun
    /\ limit_per_page \in 1..MaxPerPage
    /\ limit \in 0..MaxLimit
    /\ total \in 0..MaxListing

NextFetch ==
    \/ FetchStart
    \/ FetchPage
    \/ FetchNotFound
    \/ FetchTransportError
    \/ FetchReturn

SpecFetch == InitFetch /\ [][NextFetch]_vars

\* A whole run: main calls download_posts.
Init ==
    /\ InitRun
    /\ limit_per_page \in 1..MaxRunPosts
    /\ limit \in 0..MaxRunPosts
    /\ total \in 0..MaxRunPosts

Next ==
    \/ FetchStart
    \/ FetchPage
    \/ FetchNotFound
    \/ FetchTransportError
    \/ FetchReturn
    \/ DownloadNothing
    \/ DownloadBegin
    \/ SkipNoUrl
    \/ SkipNoFilename
    \/ MediaGetFails
    \/ MediaWriteFails
    \/ MetadataWriteFails
    \/ ItemDownloaded
    \/ DownloadEnd

Spec == Init /\ [][Next]_vars

\* What a finished run leaves to compare a second run with.
Snapshot ==
    [taken |-> TRUE, quiet |-> quiet, fetch_ret |-> fetch_ret,
     requests |-> requests, served |-> served, gets |-> gets,
     writes |-> writes, outcome |-> outcome, opens |-> opens, fs |-> fs,
     ret |-> ret]

\* The program is started again for the same user: every variable of the
\* run starts afresh, the destination is kept or is as it first was.
StartSecondRun(sameDestination) ==
    /\ pc = "done"
    /\ ~first.taken
    /\ first' = Snapshot
    /\ pc' = "idle"
    /\ served' = <<>>
    /\ after' = StartCursor
    /\ posts_json' = <<>>
    /\ count' = 0
    /\ fetch_ret' = None
    /\ idx' = 0
    /\ requests' = <<>>
    /\ gets' = <<>>
    /\ writes' = <<>>
    /\ outcome' = <<>>
    /\ opens' = <<>>
    /\ progress' = 0
    /\ ret' = "unset"
    /\ IF sameDestination
       THEN UNCHANGED <<fs, dir_exists>>
       ELSE fs' = <<>> /\ dir_exists' = FALSE

\* The same command is run a second time, on the same destination.
RunAgain ==
    /\ StartSecondRun(TRUE)
    /\ UNCHANGED <<config, impl>>

\* The command is run with the other value of --quiet, on a destination
\* that is as it was before the first run.
RunOtherQuiet ==
    /\ StartSecondRun(FALSE)
    /\ quiet' = ~quiet
    /\ UNCHANGED <<limit_per_page, limit, include_metadata, total, impl>>

\* Runs that are compared with a second run: the limit is absent or the
\* smallest, the per-page cap the smallest or the largest.
InitCompared ==
    /\ InitRun
    /\ limit_per_page \in {1, MaxRunPosts}
    /\ limit \in {0, 1}
    /\ total \in 0..MaxRunPosts

NextAgain == Next \/ RunAgain
SpecAgain == InitCompared /\ [][NextAgain]_vars

NextQuiet == Next \/ RunOtherQuiet
SpecQuiet == InitCompared /\ [][NextQuiet]_vars

\* The same user is scraped by one of the earlier implementations, with the
\* same options, on a destination that is as it was before the first run.
RunOtherImpl ==
    /\ Current
    /\ StartSecondRun(FALSE)
    /\ impl' \in Legacy
    /\ UNCHANGED config

\* Runs without a limit in which no listing request, media GET or write
\* fails, by reddit_scraper/__main__.py and then by an earlier
\* implementation.  The scraper is built as main() builds it, with
\* limit_per_page=LIMIT_PER_PAGE.
InitImpls ==
    /\ InitRun
    /\ limit_per_page = LIMIT_PER_PAGE
    /\ limit = 0
    /\ total \in 0..MaxRunPosts

NextImpls ==
    \/ FetchStart
    \/ FetchPage
    \/ FetchReturn
    \/ DownloadNothing
    \/ DownloadBegin
    \/ SkipNoUrl
    \/ SkipNoFilename
    \/ ItemDownloaded
    \/ DownloadEnd
    \/ RunOtherImpl
    \/ \E i \in Legacy : LegacyFetchStart(i)
    \/ \E i \in Legacy : LegacyFetchPage(i)
    \/ \E i \in Legacy : LegacyFetchReturn(i)
    \/ \E i \in Legacy : LegacyDownloadNothing(i)
    \/ \E i \in Legacy : LegacyDownloadBegin(i)
    \/ \E i \in Legacy : LegacySkip(i)
    \/ \E i \in Legacy : LegacyItemDownloaded(i)
    \/ \E i \in Legacy : LegacyDownloadEnd(i)

SpecImpls == InitImpls /\ [][NextImpls]_vars

\* fetch_posts runs on one thread and every call in it blocks until it
\* completes or fails: an enabled step is eventually taken.
FairFetch == SpecFetch /\ WF_vars(NextFetch)

\* The same for a whole run: download_posts is one thread of blocking calls.
FairSpec == Spec /\ WF_vars(Next)

-----------------------------------------------------------------------------
(* Properties                                                              *)

Last(s) == s[Len(s)]
NoDuplicates(s) == \A i, j \in 1..Len(s) : s[i] = s[j] => i = j
Returned == pc \in {"fetched", "done", "downloading"}
ReturnedList == Returned /\ ~fetch_ret.isNone

\* C1: with a limit L > 0 the list fetch_posts accumulates never holds more
\* than L records, and neither does the list it returns.
C1_NeverMoreThanLimit ==
    limit > 0 =>
        /\ Len(posts_json) <= limit
        /\ count <= limit
        /\ Len(fetch_ret.list) <= limit

\* C1 witness: the listing request was answered with a page that went past
\* the limit, and L records were returned.
C1_TruncatedMidPage ==
    /\ limit > 0
    /\ pc = "fetched"
    /\ Len(served) > limit
    /\ Len(fetch_ret.list) = limit

\* C2: for a listing of P records and a limit L with 0 < L < P, the list
\* returned holds exactly L records, the first L served, and it repeats no
\* record when the listing repeats none.
C2_FirstLRecords ==
    (ReturnedList /\ 0 < limit /\ limit < total) =>
        /\ Len(fetch_ret.list) = limit
        /\ fetch_ret.list = SubSeq(served, 1, limit)
        /\ (NoDuplicates(served) => NoDuplicates(fetch_ret.list))

\* C2 witness: L < P, two pages were needed, the second went past L, and the
\* records served are all different.
C2_TwoPagesCutAtLimit ==
    /\ pc = "fetched"
    /\ ~fetch_ret.isNone
    /\ 0 < limit /\ limit < total
    /\ Len(requests) = 2
    /\ Len(served) > limit
    /\ NoDuplicates(served)

\* C3: with a limit active every listing request asks for
\* min(per-page cap, limit - records already accumulated).
C3_AsksForRemainingQuota ==
    limit > 0 =>
        \A i \in 1..Len(requests) :
            requests[i].limit = Min(limit_per_page, limit - requests[i].have)

\* C4: with limit = 0 fetch_posts terminates; when no request failed, the
\* only response with a null next-cursor is the last one, and the list
\* returned holds all P records of the listing, as served.
C4_UnlimitedFetchesAll ==
    /\ (limit = 0) ~> (pc = "fetched")
    /\ [](limit = 0 =>
            /\ \A i \in 1..Len(requests) :
                  (requests[i].resp = "page" /\ requests[i].next = NoCursor)
                      => i = Len(requests)
            /\ ReturnedList =>
                  /\ requests /= <<>>
                  /\ Last(requests).next = NoCursor
                  /\ fetch_ret.list = served
                  /\ Len(fetch_ret.list) = total)

\* C4 witness: an unlimited fetch of a listing served as three pages has
\* returned.
C4_ThreePagesUnlimited ==
    /\ limit = 0
    /\ pc = "fetched"
    /\ ~fetch_ret.isNone
    /\ Len(requests) = 3
    /\ total = 3

IsTransport(r) == r.resp \in {"neterr", "non2xx"}
NothingDownloaded ==
    /\ gets = <<>>
    /\ writes = <<>>
    /\ fs = <<>>
    /\ ~dir_exists

\* C5: a response with error == 404 is the last listing request of the
\* run; fetch_posts returns the not-found value and none of the records
\* accumulated, and the run issues no media GET and writes nothing.
C5_NotFoundStopsTheRun ==
    \A i \in 1..Len(requests) :
        requests[i].resp = "notfound" =>
            /\ i = Len(requests)
            /\ pc \in {"fetched", "done"}
            /\ fetch_ret.isNone
            /\ fetch_ret.list = <<>>
            /\ NothingDownloaded

\* C5 witness: the 404 came on the second page, after records had been
\* accumulated, and the run is over.
C5_NotFoundOnLaterPage ==
    /\ pc = "done"
    /\ Len(requests) = 2
    /\ requests[2].resp = "notfound"
    /\ posts_json /= <<>>

\* C6: a page fetch that fails at transport level is the last listing
\* request of the run (not retried, none after it), and what fetch_posts
\* returns for it differs from what it returns for a 404 body.
C6_TransportErrorDistinct ==
    \A i \in 1..Len(requests) :
        IsTransport(requests[i]) =>
            /\ i = Len(requests)
            /\ pc \in {"fetched", "done"}
            /\ fetch_ret /= NotFoundRet

\* The outcome of a run, from what happened in its fetch phase.
RunOutcome ==
    IF requests /= <<>> /\ Last(requests).resp = "notfound"
    THEN "user-not-found"
    ELSE IF requests /= <<>> /\ IsTransport(Last(requests))
    THEN "fetch-error"
    ELSE IF posts_json = <<>> THEN "success-empty"
    ELSE "success-with-count"

\* C7: download_posts returns to its caller the outcome of the run, one of
\* success-with-count, success-empty, user-not-found and fetch-error.
C7_RunOutcomeReturned == pc = "done" => ret = RunOutcome

\* C8: when the first page has no children and a null next-cursor,
\* fetch_posts returns the empty list, which is not the not-found value, and
\* the run issues no media GET and writes no file.
C8_EmptyListing ==
    (/\ requests /= <<>>
     /\ requests[1].resp = "page"
     /\ requests[1].children = 0
     /\ requests[1].next = NoCursor) =>
        /\ Len(requests) = 1
        /\ gets = <<>> /\ writes = <<>> /\ fs = <<>>
        /\ Returned => (fetch_ret = List(<<>>) /\ fetch_ret /= NotFoundRet)

\* C8 witness: the run of a user with no submissions is over.
C8_EmptyUserDone ==
    /\ pc = "done"
    /\ total = 0
    /\ Len(requests) = 1
    /\ requests[1].resp = "page"

Failed == {"get failed", "media write failed", "metadata write failed"}

\* The records of the list a media GET is due for, by position, in order.
RECURSIVE DueGets(_, _)
DueGets(list, i) ==
    IF i > Len(list) THEN <<>>
    ELSE LET d == list[i].data
             due == d \in {ImagePost, SameNamePost}
         IN (IF due THEN <<i>> ELSE <<>>) \o DueGets(list, i + 1)

\* The writes a record is due when its GET and its writes succeed.
DueWrites(i, d) ==
    <<[idx |-> i, name |-> <<"a", ".", "j">>,
       content |-> [kind |-> "media", body |-> d.url]]>>
    \o (IF include_metadata
        THEN <<[idx |-> i, name |-> <<d.id, ".", "json">>,
                content |-> [kind |-> "json", data |-> d]]>>
        ELSE <<>>)

WritesOf(i) == SelectSeq(writes, LAMBDA w : w.idx = i)

\* C9: whatever items fail, the for loop passes every record once, in
\* order, a media GET is issued for every record that is due one, and a
\* record whose GET and writes succeed gets exactly its own writes.
C9_FailuresStayLocal ==
    /\ pc = "downloading" => Len(outcome) = idx - 1
    /\ (pc = "done" /\ ~Falsy(fetch_ret)) =>
          /\ Len(outcome) = Len(fetch_ret.list)
          /\ gets = DueGets(fetch_ret.list, 1)
    /\ \A i \in 1..Len(outcome) :
          outcome[i] = "downloaded" =>
              WritesOf(i) = DueWrites(i, fetch_ret.list[i].data)

\* C9 witness: the first record failed and the second was downloaded.
C9_DownloadedAfterFailure ==
    /\ pc = "done"
    /\ Len(outcome) = 2
    /\ outcome[1] \in Failed
    /\ outcome[2] = "downloaded"

\* C10: a record with no url, with an empty final path segment or with a
\* final segment without '.' gets no media GET, no media file and no
\* metadata file, and the loop goes on to the next record.
C10_SkippedWithoutIO ==
    \A i \in 1..Len(outcome) :
        fetch_ret.list[i].data \in {NoUrlPost, EmptyPost, GalleryPost} =>
            /\ outcome[i] = "skipped"
            /\ \A g \in 1..Len(gets) : gets[g] /= i
            /\ WritesOf(i) = <<>>
            /\ <<fetch_ret.list[i].data.id, ".", "json">> \notin DOMAIN fs
            /\ pc = "downloading" => idx > i

\* C10 witness: with metadata enabled, a gallery link was skipped and the
\* record after it was downloaded.
C10_GallerySkippedThenDownload ==
    /\ include_metadata
    /\ Len(outcome) = 2
    /\ fetch_ret.list[1].data = GalleryPost
    /\ outcome[2] = "downloaded"

MediaWritten == {"downloaded", "metadata write failed"}

\* C11: a record with a file url whose GET and writes succeed leaves
\* destination/username/F holding the response body, F being the final
\* path segment of the url, and with include_metadata also {id}.json
\* holding its data object; without include_metadata it writes only F.
C11_MediaAndMetadataFiles ==
    (outcome /= <<>> /\ Last(outcome) = "downloaded") =>
        LET i == Len(outcome)
            d == fetch_ret.list[i].data
            F == <<"a", ".", "j">>
            J == <<d.id, ".", "json">>
        IN /\ d \in {ImagePost, SameNamePost}
           /\ F \in DOMAIN fs
           /\ fs[F] = [kind |-> "media", body |-> d.url]
           /\ IF include_metadata
              THEN /\ J \in DOMAIN fs
                   /\ fs[J] = [kind |-> "json", data |-> d]
                   /\ Len(WritesOf(i)) = 2
              ELSE /\ DOMAIN fs = {F}
                   /\ Len(WritesOf(i)) = 1
                   /\ WritesOf(i)[1].name = F

\* C11 witness: with metadata enabled the image post has just been
\* downloaded.
C11_ImageWithMetadata ==
    /\ include_metadata
    /\ Len(outcome) = 1
    /\ outcome[1] = "downloaded"
    /\ fetch_ret.list[1].data = ImagePost

\* C14: a metadata file is written only after the media GET of the same
\* record was issued and its media file written, earlier in the run; a
\* record whose GET failed gets neither file.
C14_MetadataAfterMedia ==
    /\ \A j \in 1..Len(writes) :
          writes[j].content.kind = "json" =>
              /\ include_metadata
              /\ \E g \in 1..Len(gets) : gets[g] = writes[j].idx
              /\ \E m \in 1..(j - 1) :
                    /\ writes[m].idx = writes[j].idx
                    /\ writes[m].content.kind = "media"
    /\ \A i \in 1..Len(outcome) :
          outcome[i] = "get failed" => WritesOf(i) = <<>>
    /\ ((\A i \in 1..Len(outcome) : outcome[i] \notin MediaWritten)
            => \A n \in DOMAIN fs : fs[n].kind /= "json")

\* C14 witness: with metadata enabled, the GET of the first record failed
\* and the second record got both its files.
C14_GetFailedThenBothFiles ==
    /\ include_metadata
    /\ Len(outcome) = 2
    /\ outcome[1] = "get failed"
    /\ outcome[2] = "downloaded"

\* C15: the list fetch_posts accumulates and returns is what the service
\* served, in the order served, cut at the limit and at nothing else: a
\* record served twice is held twice.
C15_ServedOrderKept ==
    LET n == IF limit = 0 \/ Len(served) < limit THEN Len(served) ELSE limit
    IN /\ posts_json = SubSeq(served, 1, n)
       /\ (ReturnedList => fetch_ret.list = SubSeq(served, 1, n))

\* C15 witness: the same record was served on two pages and is returned
\* twice, after another record.
C15_RepeatedRecordKept ==
    /\ pc = "fetched"
    /\ ~fetch_ret.isNone
    /\ Len(requests) = 3
    /\ Len(fetch_ret.list) = 3
    /\ fetch_ret.list[1] /= fetch_ret.list[2]
    /\ fetch_ret.list[2] = fetch_ret.list[3]

\* The final path segment of the url of the i-th record of the list, and
\* <<>> when it has no url.
SegmentOf(i) ==
    LET d == fetch_ret.list[i].data
    IN IF d \in {ImagePost, SameNamePost} THEN <<"a", ".", "j">>
       ELSE IF d = GalleryPost THEN <<"g">> ELSE <<>>

\* C16: at the end of a run, a media file holds the body downloaded for the
\* last record, in listing order, that resolved to its name and wrote it,
\* provided no later write to that name failed; a collision is no error.
C16_LastWriteWins ==
    (pc = "done" /\ ~Falsy(fetch_ret)) =>
        \A i \in 1..Len(outcome) :
            (/\ outcome[i] \in MediaWritten
             /\ \A j \in (i + 1)..Len(outcome) :
                   SegmentOf(j) = SegmentOf(i) =>
                       outcome[j] \in {"get failed"}) =>
                /\ SegmentOf(i) \in DOMAIN fs
                /\ fs[SegmentOf(i)] =
                       [kind |-> "media", body |-> fetch_ret.list[i].data.url]
                /\ Len(outcome) = Len(fetch_ret.list)

\* C16 witness: two records with different urls and the same filename were
\* both downloaded; the file holds the body of the second.
C16_TwoRecordsOneName ==
    /\ pc = "done"
    /\ Len(outcome) = 2
    /\ outcome[1] = "downloaded" /\ outcome[2] = "downloaded"
    /\ fetch_ret.list[1].data = ImagePost
    /\ fetch_ret.list[2].data = SameNamePost
    /\ fs[<<"a", ".", "j">>] = [kind |-> "media", body |-> SameNamePost.url]

\* The state of the run's state machine.
Phase ==
    CASE pc = "idle" -> "Idle"
      [] pc = "fetching" -> "Fetching"
      [] pc = "fetched" ->
            IF requests /= <<>> /\ Last(requests).resp = "notfound"
            THEN "NotFound"
            ELSE IF requests /= <<>> /\ IsTransport(Last(requests))
            THEN "FetchError"
            ELSE IF fetch_ret.list = <<>> THEN "EmptyResult"
            ELSE "Downloading"
      [] pc = "downloading" -> "Downloading"
      [] pc = "done" -> "Done"

PhaseSteps ==
    {<<"Idle", "Fetching">>, <<"Fetching", "Fetching">>,
     <<"Fetching", "NotFound">>, <<"Fetching", "FetchError">>,
     <<"Fetching", "EmptyResult">>, <<"Fetching", "Downloading">>,
     <<"NotFound", "Done">>, <<"FetchError", "Done">>,
     <<"EmptyResult", "Done">>, <<"Downloading", "Downloading">>,
     <<"Downloading", "Done">>}

PhaseStepAllowed == (<<Phase, Phase'>>) \in PhaseSteps

\* C13: a run goes Idle, Fetching, one of NotFound, FetchError, EmptyResult
\* and Downloading, then Done; it always reaches Done, from Downloading
\* with every record passed exactly once whatever failed, and nothing is
\* attempted after Done.
C13_RunStateMachine ==
    /\ [][PhaseStepAllowed]_vars
    /\ [][Phase = "Downloading" =>
            /\ Len(outcome') <= Len(outcome) + 1
            /\ SubSeq(outcome', 1, Len(outcome)) = outcome]_vars
    /\ [][Phase = "Done" => UNCHANGED <<requests, gets, writes, outcome, fs>>]_vars
    /\ [](Phase = "Done" /\ dir_exists => Len(outcome) = Len(fetch_ret.list))
    /\ (Phase = "Idle") ~> (Phase = "Done")
    /\ (Phase = "Downloading") ~> (Phase = "Done")

\* C13 witness: the run is Done after two records that both failed.
C13_DoneAfterFailures ==
    /\ Phase = "Done"
    /\ Len(fetch_ret.list) = 2
    /\ Len(outcome) = 2
    /\ outcome[1] \in Failed /\ outcome[2] \in Failed

\* C17: the run is phased and sequential: a step issues at most one
\* network request, no listing request is issued once a media GET has been,
\* media GETs go in listing order with no record requested twice, and no
\* cursor is requested twice.
C17_SequentialPhased ==
    /\ [][Len(requests') + Len(gets') <= Len(requests) + Len(gets) + 1]_vars
    /\ [][gets /= <<>> => requests' = requests]_vars
    /\ [](gets /= <<>> => pc \in {"downloading", "done"})
    /\ [](\A i, j \in 1..Len(gets) : i < j => gets[i] < gets[j])
    /\ [](\A i, j \in 1..Len(requests) :
            i < j => requests[i].after /= requests[j].after)

\* C17 witness: a run with two listing requests and two media GETs is over.
C17_TwoRequestsTwoGets ==
    /\ pc = "done"
    /\ Len(requests) = 2
    /\ Len(gets) = 2

IsPrefix(a, b) == Len(a) <= Len(b) /\ a = SubSeq(b, 1, Len(a))

\* C12: a second run for the same user on the same destination, given the
\* responses the first run was given, ends with the destination holding the
\* files of the first run, names and contents, and raises no error although
\* destination/username exists.
C12_SecondRunSameFiles ==
    (first.taken /\ pc = "done") =>
        /\ fs = first.fs
        /\ ret = "None"
        /\ fetch_ret = first.fetch_ret
        /\ writes = first.writes

\* C12 witness: the second run is over; it found the directory in place
\* and wrote a media file two records share, and a metadata file.
C12_SecondRunOverwrote ==
    /\ first.taken
    /\ pc = "done"
    /\ include_metadata
    /\ Len(outcome) = 2
    /\ outcome[1] = "downloaded" /\ outcome[2] = "downloaded"
    /\ fetch_ret.list[1] /= fetch_ret.list[2]
    /\ Len(writes) = 4

\* C18: a run with the other value of quiet, given the same responses on
\* the same initial destination, issues the listing requests and media GETs
\* of the first run and leaves its files; quiet only silences the progress
\* reports.
C18_QuietChangesNothing ==
    /\ progress = IF quiet THEN 0 ELSE Len(outcome)
    /\ first.taken =>
          /\ quiet /= first.quiet
          /\ IsPrefix(requests, first.requests)
          /\ IsPrefix(gets, first.gets)
          /\ IsPrefix(writes, first.writes)
          /\ pc /= "done" => ENABLED Next
          /\ pc = "done" =>
                /\ requests = first.requests
                /\ gets = first.gets
                /\ writes = first.writes
                /\ fs = first.fs
                /\ outcome = first.outcome

\* C18 witness: the quiet run that follows a reporting run is over, after
\* two listing requests, a failed GET and a download.
C18_QuietRunOver ==
    /\ first.taken
    /\ quiet
    /\ pc = "done"
    /\ Len(requests) = 2
    /\ Len(gets) = 2
    /\ outcome[1] = "get failed" /\ outcome[2] = "downloaded"

=============================================================================
